---------------------------- MODULE Spec2Model ----------------------------
(***************************************************************************)
(* Model of cime_config/MARBL_scripts/MARBL_diags_to_diag_table.py:        *)
(* the line parser (_parse_line), the template registry (DiagTableClass)   *)
(* and the conversion run (diagnostics_to_diag_table).                     *)
(*                                                                         *)
(* Text is modelled character by character: a Python str is a sequence of  *)
(* one-character strings, so that split, strip, the "ALT_CO2" substring    *)
(* test, the f"{freq}_z" keys and the freq[-2:] suffix test are computed   *)
(* as the code computes them.                                              *)
(***************************************************************************)
EXTENDS Naturals, Sequences, FiniteSets

VARIABLES
    ecosys_diagnostics_in,  \* "None" | "missing" | "file": the input path argument
    all_lines,              \* the lines of the input file
    vert_grid,              \* "native" | "interpolated" | "both"
    lMARBL_output_all,
    lMARBL_output_alt_co2,
    pc,                     \* position of the run / kind of the object under test
    idx,                    \* 1-based index of the line the loop is at
    processed_vars,         \* frequency tag -> list of names seen at that tag
    diag_table,             \* DiagTableClass._diag_table_dict
    log,                    \* messages sent to the logging sink / stdout
    file_out,               \* documents written to diag_table_out, in order
    call,                   \* the last method call made on the registry
    ncalls,                 \* number of method calls made on the registry
    line_in,                \* argument of _parse_line under test
    parsed                  \* result of _parse_line under test

vars == <<ecosys_diagnostics_in, all_lines, vert_grid, lMARBL_output_all,
          lMARBL_output_alt_co2, pc, idx, processed_vars, diag_table, log,
          file_out, call, ncalls, line_in, parsed>>

runVars == <<ecosys_diagnostics_in, all_lines, lMARBL_output_all,
             lMARBL_output_alt_co2, idx, processed_vars>>

(***************************************************************************)
(* Bounds of the model.                                                    *)
(***************************************************************************)
MaxLen == 5     \* longest enumerated argument of _parse_line
MaxLines == 3   \* longest input file
MaxCalls == 2   \* longest sequence of update / dump_to_json calls

(***************************************************************************)
(* Text.                                                                   *)
(***************************************************************************)
Whitespace == {" ", "\t", "\n"}

LOW == <<"l", "o", "w">>
MEDIUM == <<"m", "e", "d", "i", "u", "m">>
HIGH == <<"h", "i", "g", "h">>
NEVER == <<"n", "e", "v", "e", "r">>
DAILY == <<"d", "a", "i", "l", "y">>
MEAN == <<"m", "e", "a", "n">>
INST == <<"i", "n", "s", "t">>
FOO == <<"F", "O", "O">>
BAR == <<"B", "A", "R">>
ALT_CO2 == <<"A", "L", "T", "_", "C", "O", "2">>
DIC_ALT_CO2 == <<"D", "I", "C", "_">> \o ALT_CO2
SUFFIX_Z == <<"_", "z">>
SUFFIX_NATIVE_Z == <<"_", "n", "a", "t", "i", "v", "e", "_", "z">>

\* str.split(sep)[0] and the rest: position of the first sep, 0 when absent
IndexOf(s, c) ==
    IF \E i \in 1..Len(s) : s[i] = c
    THEN CHOOSE i \in 1..Len(s) : s[i] = c /\ \A j \in 1..(i - 1) : s[j] # c
    ELSE 0

RECURSIVE Split(_, _)
Split(s, c) ==
    LET i == IndexOf(s, c)
    IN  IF i = 0 THEN <<s>>
        ELSE <<SubSeq(s, 1, i - 1)>> \o Split(SubSeq(s, i + 1, Len(s)), c)

RECURSIVE LStrip(_)
LStrip(s) == IF s # <<>> /\ Head(s) \in Whitespace THEN LStrip(Tail(s)) ELSE s

RECURSIVE RStrip(_)
RStrip(s) ==
    IF s # <<>> /\ s[Len(s)] \in Whitespace
    THEN RStrip(SubSeq(s, 1, Len(s) - 1)) ELSE s

Strip(s) == RStrip(LStrip(s))

\* Python's `sub in s`
Contains(s, sub) ==
    \E i \in 1..(Len(s) + 1) :
        i + Len(sub) - 1 <= Len(s) /\ SubSeq(s, i, i + Len(sub) - 1) = sub

\* Python's s[-2:]
LastTwo(s) == IF Len(s) <= 2 THEN s ELSE SubSeq(s, Len(s) - 1, Len(s))

(***************************************************************************)
(* _parse_line                                                             *)
(***************************************************************************)
NullTriple == [kind |-> "none", varname |-> <<>>, freq |-> <<>>, op |-> <<>>, log |-> <<>>]

ExitParse(msg) == [kind |-> "exit", varname |-> <<>>, freq |-> <<>>, op |-> <<>>, log |-> <<msg>>]

\* the loop over line_split[1].split(',')
RECURSIVE ParseEntriesMissingCheck(_, _, _)
ParseEntriesMissingCheck(entries, freq, op) ==
    IF entries = <<>> THEN [exit |-> FALSE, freq |-> freq, op |-> op]
    ELSE LET freq_op_split == Split(Strip(Head(entries)), "_")
         IN  IF Len(freq_op_split) < 2
             THEN [exit |-> TRUE, freq |-> freq, op |-> op]
             ELSE ParseEntriesMissingCheck(Tail(entries),
                                 Append(freq, freq_op_split[1]),
                                 Append(op, freq_op_split[2]))

RECURSIVE ParseEntries(_, _, _)
ParseEntries(entries, freq, op) ==
    IF entries = <<>> THEN [exit |-> FALSE, freq |-> freq, op |-> op]
    ELSE LET freq_op_split == Split(Strip(Head(entries)), "_")
         IN  IF Len(freq_op_split) # 2
             THEN [exit |-> TRUE, freq |-> freq, op |-> op]
             ELSE ParseEntries(Tail(entries),
                               Append(freq, freq_op_split[1]),
                               Append(op, freq_op_split[2]))

\* a malformed line reported but treated as a blank one
ParseLineNoExit(line) ==
    LET line_loc == Strip(Split(line, "#")[1])
        line_split == Split(line_loc, ":")
    IN  IF Len(line_loc) = 0 THEN NullTriple
        ELSE IF Len(line_split) # 2 THEN [NullTriple EXCEPT !.log = <<"ERROR: varname">>]
        ELSE LET r == ParseEntries(Split(line_split[2], ","), <<>>, <<>>)
             IN  IF r.exit THEN [NullTriple EXCEPT !.log = <<"ERROR: freq_op">>]
                 ELSE [kind |-> "ok", varname |-> Strip(line_split[1]),
                       freq |-> r.freq, op |-> r.op, log |-> <<>>]

ParseLine(line) ==
    LET line_loc == Strip(Split(line, "#")[1])
        line_split == Split(line_loc, ":")
    IN  IF Len(line_loc) = 0 THEN NullTriple
        ELSE IF Len(line_split) # 2 THEN ExitParse("ERROR: varname")
        ELSE LET r == ParseEntries(Split(line_split[2], ","), <<>>, <<>>)
             IN  IF r.exit THEN ExitParse("ERROR: freq_op")
                 ELSE [kind |-> "ok", varname |-> Strip(line_split[1]),
                       freq |-> r.freq, op |-> r.op, log |-> <<>>]

(***************************************************************************)
(* DiagTableClass                                                          *)
(***************************************************************************)
VertGrids == {"native", "interpolated", "both"}

Interpolated(vg) == vg \in {"interpolated", "both"}

Native(vg) == vg \in {"native", "both"}

\* an absent (None) keyword argument, and a supplied one
NoneArg == [given |-> FALSE]

Given(v) == [given |-> TRUE, value |-> v]

DictTemplate(suffix, output_freq_units, new_file_freq_units, output_freq, new_file_freq, module, packing) ==
    [suffix |-> suffix,
     output_freq |-> output_freq,
     new_file_freq |-> new_file_freq,
     output_freq_units |-> output_freq_units,
     new_file_freq_units |-> IF new_file_freq_units.given
                             THEN new_file_freq_units.value
                             ELSE output_freq_units,
     time_axis_units |-> "days",
     reduction_method |-> "mean",
     regional_section |-> "none",
     fields |-> <<[module |-> module, packing |-> packing, lists |-> << <<>> >>]>>]

MediumUnits == [spinup |-> "years", test |-> "days", else |-> "months"]

HighOutputFreq == [spinup |-> 5, else |-> 1]

HighNewFileUnits == Given([spinup |-> "years", else |-> "months"])

\* the template __init__ stores under each key it creates
TemplateFor(key) ==
    CASE key = MEDIUM ->
           DictTemplate([spinup |-> "h_bgc_annual%4yr", test |-> "h_bgc_daily%4yr-%2mo-%2dy",
                         else |-> "h_bgc_monthly%4yr-%2mo"],
                        MediumUnits, NoneArg, 1, 1, "ocean_model", 1)
      [] key = MEDIUM \o SUFFIX_Z ->
           DictTemplate([spinup |-> "h_bgc_annual_z%4yr", test |-> "h_bgc_daily_z%4yr-%2mo-%2dy",
                         else |-> "h_bgc_monthly_z%4yr-%2mo"],
                        MediumUnits, NoneArg, 1, 1, "ocean_model_z", 1)
      [] key = MEDIUM \o SUFFIX_NATIVE_Z ->
           DictTemplate([spinup |-> "hm_bgc_annual_z%4yr", test |-> "hm_bgc_daily_z%4yr-%2mo-%2dy",
                         else |-> "hm_bgc_monthly_z%4yr-%2mo"],
                        MediumUnits, NoneArg, 1, 1, "ocean_model", 1)
      [] key = HIGH ->
           DictTemplate([spinup |-> "h_bgc_daily5%4yr", else |-> "h_bgc_daily%4yr-%2mo"],
                        "days", HighNewFileUnits, HighOutputFreq, 1, "ocean_model", 1)
      [] key = HIGH \o SUFFIX_Z ->
           DictTemplate([spinup |-> "h_bgc_daily5_z%4yr", else |-> "h_bgc_daily_z%4yr-%2mo"],
                        "days", HighNewFileUnits, HighOutputFreq, 1, "ocean_model_z", 1)
      [] key = HIGH \o SUFFIX_NATIVE_Z ->
           DictTemplate([spinup |-> "hm_bgc_daily5_z%4yr", else |-> "hm_bgc_daily_z%4yr-%2mo"],
                        "days", HighNewFileUnits, HighOutputFreq, 1, "ocean_model", 1)
      [] key = LOW ->
           DictTemplate([spinup |-> "h_bgc_annual2%4yr", else |-> "h_bgc_annual%4yr"],
                        "years", NoneArg, 1, 1, "ocean_model", 1)
      [] key = LOW \o SUFFIX_Z ->
           DictTemplate([spinup |-> "h_bgc_annual2_z%4yr", else |-> "h_bgc_annual_z%4yr"],
                        "years", NoneArg, 1, 1, "ocean_model_z", 1)
      [] key = LOW \o SUFFIX_NATIVE_Z ->
           DictTemplate([spinup |-> "hm_bgc_annual2_z%4yr", else |-> "hm_bgc_annual_z%4yr"],
                        "years", NoneArg, 1, 1, "ocean_model", 1)

\* the keys __init__ creates for a vertical-grid selection
TierNames(vg) ==
    {MEDIUM, HIGH, LOW}
    \cup (IF Interpolated(vg) THEN {f \o SUFFIX_Z : f \in {MEDIUM, HIGH, LOW}} ELSE {})
    \cup (IF Native(vg) THEN {f \o SUFFIX_NATIVE_Z : f \in {MEDIUM, HIGH, LOW}} ELSE {})

DiagTableClassInit(vg) == [key \in TierNames(vg) |-> TemplateFor(key)]

\* self._diag_table_dict[key]["fields"][0]["lists"][0].append(varname)
AppendVar(d, key, varname) ==
    [d EXCEPT ![key].fields[1].lists[1] = Append(@, varname)]

\* the keys one pass of the loop "iv. Update dictionary" appends to, in order
TargetKeysElif(freq, is2D, vg) ==
    IF is2D THEN <<freq>>
    ELSE IF Interpolated(vg) THEN <<freq \o SUFFIX_Z>>
    ELSE IF Native(vg) THEN <<freq \o SUFFIX_NATIVE_Z>> ELSE <<>>

TargetKeys(freq, is2D, vg) ==
    IF is2D THEN <<freq>>
    ELSE (IF Interpolated(vg) THEN <<freq \o SUFFIX_Z>> ELSE <<>>)
         \o (IF Native(vg) THEN <<freq \o SUFFIX_NATIVE_Z>> ELSE <<>>)

\* the appends of one pass; a missing key raises KeyError and leaves the
\* appends already made in place
RECURSIVE AppendAll(_, _, _)
AppendAll(d, keys, varname) ==
    IF keys = <<>> THEN [dict |-> d, raised |-> FALSE]
    ELSE IF Head(keys) \notin DOMAIN d THEN [dict |-> d, raised |-> TRUE]
    ELSE AppendAll(AppendVar(d, Head(keys), varname), Tail(keys), varname)

\* the loop "iv. Update dictionary"
RECURSIVE UpdateLoop(_, _, _, _, _)
UpdateLoop(d, use_freq, varname, is2D, vg) ==
    IF use_freq = <<>> THEN [dict |-> d, raised |-> FALSE]
    ELSE IF Head(use_freq) = NEVER THEN UpdateLoop(d, Tail(use_freq), varname, is2D, vg)
    ELSE LET r == AppendAll(d, TargetKeys(Head(use_freq), is2D, vg), varname)
         IN  IF r.raised THEN r
             ELSE UpdateLoop(r.dict, Tail(use_freq), varname, is2D, vg)

UseFreqIgnoresFlag(frequency, output_all) == frequency

UseFreq(frequency, output_all) == IF output_all THEN <<MEDIUM>> ELSE frequency

Update(d, varname, frequency, is2D, output_all, vg) ==
    UpdateLoop(d, UseFreq(frequency, output_all), varname, is2D, vg)

Transports ==
    << <<"v", "o", "l", "c", "e", "l", "l", "o">>, <<"v", "m", "o">>,
       <<"v", "h", "G", "M">>, <<"v", "h", "m", "l">>, <<"u", "m", "o">>,
       <<"u", "h", "G", "M">>, <<"u", "h", "m", "l">> >>

EmittedAll(d) == DOMAIN d

\* the tiers dump_to_json copies into out_dict["Files"]
Emitted(d) == {freq \in DOMAIN d : Len(d[freq].fields[1].lists[1]) > 0}

GetsTransportsAnyNative(d, freq) == d[freq].fields[1].module = "ocean_model"

GetsTransports(d, freq) ==
    d[freq].fields[1].module = "ocean_model" /\ LastTwo(freq) = SUFFIX_Z

\* dict.copy() is shallow: out_dict["Files"][freq]["fields"] is the list the
\* registry holds, so the append of the transports lands in the registry too
DictAfterDump(d) ==
    [freq \in DOMAIN d |->
        IF freq \in Emitted(d) /\ GetsTransports(d, freq)
        THEN [d[freq] EXCEPT !.fields[1].lists = Append(@, Transports)]
        ELSE d[freq]]

DumpToJson(d) ==
    LET after == DictAfterDump(d)
        out_dict == [Files |-> [freq \in Emitted(d) |-> after[freq]]]
    IN  [dict |-> after,
         written |-> Emitted(d) # {},
         out_dict |-> out_dict,
         log |-> IF Emitted(d) # {} THEN <<>> ELSE <<"WARNING: no JSON file written">>]

(***************************************************************************)
(* diagnostics_to_diag_table                                               *)
(***************************************************************************)
\* the caller's list of 2D diagnostics
diag2D_list == {FOO}

SEP == <<" ", ":", " ">>

Entry(freq, op) == freq \o <<"_">> \o op

\* lines an input file is made of
InputLines ==
    { FOO \o SEP \o Entry(LOW, MEAN),
      BAR \o SEP \o Entry(LOW, MEAN),
      FOO \o SEP \o Entry(HIGH, INST),
      BAR \o SEP \o Entry(MEDIUM, MEAN) \o <<",", " ">> \o Entry(MEDIUM, INST),
      <<"#", " ">> \o FOO,
      FOO \o <<" ">> \o Entry(LOW, MEAN),
      DIC_ALT_CO2 \o SEP \o Entry(LOW, MEAN),
      BAR \o SEP \o Entry(DAILY, MEAN) }

InputFiles == UNION {[1..n -> InputLines] : n \in 0..MaxLines}

InList(x, list) == \E i \in 1..Len(list) : list[i] = x

\* the check with the record of the name left out
RECURSIVE CheckDuplicatesNoRecord(_, _, _)
CheckDuplicatesNoRecord(pv, varname, frequency) ==
    IF frequency = <<>> THEN [exit |-> FALSE, processed_vars |-> pv]
    ELSE LET freq == Head(frequency)
             pv1 == IF freq \in DOMAIN pv THEN pv
                    ELSE [f \in DOMAIN pv \cup {freq} |-> IF f = freq THEN <<>> ELSE pv[f]]
         IN  IF InList(varname, pv1[freq])
             THEN [exit |-> TRUE, processed_vars |-> pv1]
             ELSE CheckDuplicatesNoRecord(pv1, varname, Tail(frequency))

\* "ii. Abort if varname has already appeared in file at given frequency"
RECURSIVE CheckDuplicates(_, _, _)
CheckDuplicates(pv, varname, frequency) ==
    IF frequency = <<>> THEN [exit |-> FALSE, processed_vars |-> pv]
    ELSE LET freq == Head(frequency)
             pv1 == IF freq \in DOMAIN pv THEN pv
                    ELSE [f \in DOMAIN pv \cup {freq} |-> IF f = freq THEN <<>> ELSE pv[f]]
         IN  IF InList(varname, pv1[freq])
             THEN [exit |-> TRUE, processed_vars |-> pv1]
             ELSE CheckDuplicates([pv1 EXCEPT ![freq] = Append(@, varname)],
                                  varname, Tail(frequency))

\* "Skip ALT_CO2 vars unless explicitly requested"
SkipAltCO2(varname, output_alt_co2) == (~output_alt_co2) /\ Contains(varname, ALT_CO2)

\* one pass of the loop body over `line`: where the run goes next
LineBody(line, pv, d, vg, output_all, output_alt_co2) ==
    LET p == ParseLine(Strip(line))
        stay == [pc |-> "loop", processed_vars |-> pv, dict |-> d, log |-> p.log]
    IN  IF p.kind = "exit" THEN [stay EXCEPT !.pc = "exit", !.log = p.log]
        ELSE IF p.kind = "none" THEN stay
        ELSE IF SkipAltCO2(p.varname, output_alt_co2) THEN stay
        ELSE LET c == CheckDuplicates(pv, p.varname, p.freq)
                 u == Update(d, p.varname, p.freq, p.varname \in diag2D_list, output_all, vg)
             IN  IF c.exit
                 THEN [pc |-> "exit", processed_vars |-> c.processed_vars, dict |-> d,
                       log |-> <<"ERROR: duplicate">>]
                 ELSE [pc |-> IF u.raised THEN "raised" ELSE "loop",
                       processed_vars |-> c.processed_vars, dict |-> u.dict, log |-> <<>>]

NoCall == [op |-> "none"]

NotParsed == [kind |-> "pending", varname |-> <<>>, freq |-> <<>>, op |-> <<>>, log |-> <<>>]

Init ==
    /\ ecosys_diagnostics_in \in {"None", "missing", "file"}
    /\ all_lines \in (IF ecosys_diagnostics_in = "file" THEN InputFiles ELSE {<<>>})
    /\ vert_grid \in VertGrids
    /\ lMARBL_output_all \in BOOLEAN
    /\ lMARBL_output_alt_co2 \in BOOLEAN
    /\ pc = "start"
    /\ idx = 1
    /\ processed_vars = <<>>
    /\ diag_table = <<>>
    /\ log = <<>>
    /\ file_out = <<>>
    /\ call = NoCall
    /\ ncalls = 0
    /\ line_in = <<>>
    /\ parsed = NotParsed

\* "1. Check arguments", "2. Set up diag_table object" and the read of the file
CheckArguments ==
    /\ pc = "start"
    /\ IF ecosys_diagnostics_in = "None"
       THEN pc' = "exit" /\ log' = Append(log, "ERROR: no input") /\ UNCHANGED diag_table
       ELSE IF ecosys_diagnostics_in = "missing"
       THEN pc' = "exit" /\ log' = Append(log, "ERROR: file not found") /\ UNCHANGED diag_table
       ELSE pc' = "loop" /\ diag_table' = DiagTableClassInit(vert_grid) /\ UNCHANGED log
    /\ UNCHANGED <<ecosys_diagnostics_in, all_lines, vert_grid, lMARBL_output_all,
                   lMARBL_output_alt_co2, idx, processed_vars, file_out, call, ncalls,
                   line_in, parsed>>

\* one iteration of "for line in all_lines"
ProcessLine ==
    /\ pc = "loop"
    /\ idx <= Len(all_lines)
    /\ LET r == LineBody(all_lines[idx], processed_vars, diag_table, vert_grid,
                         lMARBL_output_all, lMARBL_output_alt_co2)
       IN  /\ pc' = r.pc
           /\ processed_vars' = r.processed_vars
           /\ diag_table' = r.dict
           /\ log' = log \o r.log
           /\ idx' = IF r.pc = "loop" THEN idx + 1 ELSE idx
    /\ UNCHANGED <<ecosys_diagnostics_in, all_lines, vert_grid, lMARBL_output_all,
                   lMARBL_output_alt_co2, file_out, call, ncalls, line_in, parsed>>

\* "File footer": diag_table.dump_to_json(diag_table_out)
WriteFooter ==
    /\ pc = "loop"
    /\ idx > Len(all_lines)
    /\ LET r == DumpToJson(diag_table)
       IN  /\ diag_table' = r.dict
           /\ file_out' = IF r.written THEN Append(file_out, r.out_dict) ELSE file_out
           /\ log' = log \o r.log
    /\ pc' = "done"
    /\ UNCHANGED <<ecosys_diagnostics_in, all_lines, vert_grid, lMARBL_output_all,
                   lMARBL_output_alt_co2, idx, processed_vars, call, ncalls, line_in, parsed>>

Next == CheckArguments \/ ProcessLine \/ WriteFooter

Spec == Init /\ [][Next]_vars

(***************************************************************************)
(* A DiagTableClass object under any sequence of update and dump_to_json   *)
(* calls.  update receives the registry's own vertical-grid selection, as  *)
(* at its call site, and frequency lists as the parser produces them.      *)
(***************************************************************************)
FrequencyInputs ==
    { <<LOW>>, <<MEDIUM>>, <<HIGH>>, <<NEVER>>, <<DAILY>>,
      <<LOW, HIGH>>, <<NEVER, LOW>>, <<DAILY, LOW>>, <<HIGH, HIGH>> }

ClassInit ==
    /\ ecosys_diagnostics_in = "None"
    /\ all_lines = <<>>
    /\ vert_grid \in VertGrids
    /\ lMARBL_output_all = FALSE
    /\ lMARBL_output_alt_co2 = FALSE
    /\ pc = "object"
    /\ idx = 1
    /\ processed_vars = <<>>
    /\ diag_table = DiagTableClassInit(vert_grid)
    /\ log = <<>>
    /\ file_out = <<>>
    /\ call = NoCall
    /\ ncalls = 0
    /\ line_in = <<>>
    /\ parsed = NotParsed

CallUpdate ==
    /\ pc = "object"
    /\ ncalls < MaxCalls
    /\ \E varname \in {FOO, BAR}, frequency \in FrequencyInputs, is2D \in BOOLEAN,
          output_all \in BOOLEAN :
          LET r == Update(diag_table, varname, frequency, is2D, output_all, vert_grid)
          IN  /\ diag_table' = r.dict
              /\ call' = [op |-> "update", varname |-> varname, frequency |-> frequency,
                          is2D |-> is2D, output_all |-> output_all,
                          before |-> diag_table, raised |-> r.raised]
    /\ ncalls' = ncalls + 1
    /\ UNCHANGED <<runVars, vert_grid, pc, log, file_out, line_in, parsed>>

CallDump ==
    /\ pc = "object"
    /\ ncalls < MaxCalls
    /\ LET r == DumpToJson(diag_table)
       IN  /\ diag_table' = r.dict
           /\ file_out' = IF r.written THEN Append(file_out, r.out_dict) ELSE file_out
           /\ log' = log \o r.log
           /\ call' = [op |-> "dump", before |-> diag_table,
                       files |-> Len(file_out), logged |-> Len(log)]
    /\ ncalls' = ncalls + 1
    /\ UNCHANGED <<runVars, vert_grid, pc, line_in, parsed>>

ClassNext == CallUpdate \/ CallDump

ClassSpec == ClassInit /\ [][ClassNext]_vars

(***************************************************************************)
(* _parse_line applied to every short line over the characters it          *)
(* inspects, and to the lines of the documentation.                        *)
(***************************************************************************)
Alphabet == {"a", " ", "#", ":", ",", "_"}

SampleLines ==
    { FOO \o SEP \o Entry(LOW, MEAN),
      FOO \o SEP \o Entry(LOW, MEAN) \o <<",", " ">> \o Entry(HIGH, INST),
      FOO \o <<" ">> \o Entry(LOW, MEAN),
      <<" ", " ">> \o FOO \o SEP \o Entry(LOW, MEAN) \o <<" ", "#", " ", ":">>,
      DIC_ALT_CO2 \o <<":">> \o Entry(NEVER, MEAN) \o <<",">> \o Entry(LOW, MEAN) \o <<",">> \o Entry(HIGH, INST) }

ParseInputs == UNION {[1..n -> Alphabet] : n \in 0..MaxLen} \cup SampleLines

ParseInit ==
    /\ ecosys_diagnostics_in = "None"
    /\ all_lines = <<>>
    /\ vert_grid = "native"
    /\ lMARBL_output_all = FALSE
    /\ lMARBL_output_alt_co2 = FALSE
    /\ pc = "parse"
    /\ idx = 1
    /\ processed_vars = <<>>
    /\ diag_table = <<>>
    /\ log = <<>>
    /\ file_out = <<>>
    /\ call = NoCall
    /\ ncalls = 0
    /\ line_in \in ParseInputs
    /\ parsed = NotParsed

CallParseLine ==
    /\ pc = "parse"
    /\ parsed' = ParseLine(line_in)
    /\ log' = log \o parsed'.log
    /\ pc' = "parsed"
    /\ UNCHANGED <<runVars, vert_grid, diag_table, file_out, call, ncalls, line_in>>

ParseNext == CallParseLine

ParseSpec == ParseInit /\ [][ParseNext]_vars

(***************************************************************************)
(* Vocabulary of the properties, stated on the text of the input and on    *)
(* the registry without the operators of the code above.                   *)
(***************************************************************************)
Count(s, c) == Cardinality({i \in 1..Len(s) : s[i] = c})

\* the text before the first '#'
BeforeComment(s) ==
    LET n == CHOOSE k \in 0..Len(s) :
                 /\ \A i \in 1..k : s[i] # "#"
                 /\ (k < Len(s) => s[k + 1] = "#")
    IN  SubSeq(s, 1, n)

Blank(s) == \A i \in 1..Len(s) : s[i] \in Whitespace

\* s without its leading and trailing whitespace
Trim(s) ==
    IF Blank(s) THEN <<>>
    ELSE LET solid == {i \in 1..Len(s) : s[i] \notin Whitespace}
             first == CHOOSE i \in solid : \A j \in solid : i <= j
             last == CHOOSE i \in solid : \A j \in solid : j <= i
         IN  SubSeq(s, first, last)

\* position of the k-th occurrence of c in s; 0 before the first, Len(s)+1 past the last
SepPos(s, c, k) ==
    LET at == {i \in 1..Len(s) : s[i] = c}
    IN  IF k = 0 THEN 0
        ELSE IF k > Cardinality(at) THEN Len(s) + 1
        ELSE CHOOSE i \in at : Cardinality({j \in at : j < i}) = k - 1

\* the k-th of the parts of s that the occurrences of c separate
Segment(s, c, k) == SubSeq(s, SepPos(s, c, k - 1) + 1, SepPos(s, c, k) - 1)

UserList(d, key) == d[key].fields[1].lists[1]

Repeat(x, n) == [i \in 1..n |-> x]

BaseTiers == {LOW, MEDIUM, HIGH}

ZTiers == {f \o <<"_", "z">> : f \in BaseTiers}

NativeZTiers == {f \o <<"_", "n", "a", "t", "i", "v", "e", "_", "z">> : f \in BaseTiers}

ErrorMessages ==
    {"ERROR: no input", "ERROR: file not found", "ERROR: varname", "ERROR: freq_op",
     "ERROR: duplicate"}

\* what each line of the input declares
Decls == [j \in 1..Len(all_lines) |-> ParseLine(Strip(all_lines[j]))]

\* line j declares its variable at a tag the input (D) has already declared it at
SecondOccurrence(D, j) ==
    LET dj == D[j]
    IN  /\ dj.kind = "ok"
        /\ \/ \E a, b \in 1..Len(dj.freq) : a < b /\ dj.freq[a] = dj.freq[b]
           \/ \E i \in 1..(j - 1) :
                /\ D[i].kind = "ok"
                /\ D[i].varname = dj.varname
                /\ \E a \in 1..Len(D[i].freq), b \in 1..Len(dj.freq) :
                       D[i].freq[a] = dj.freq[b]

\* line j is not skipped as an ALT_CO2 diagnostic
Survives(D, j) == lMARBL_output_alt_co2 \/ ~Contains(D[j].varname, ALT_CO2)

Ended == pc \in {"exit", "raised", "done"}

(***************************************************************************)
(* C1 (as stated): whenever some line of the input declares a variable at  *)
(* a frequency tag it was already declared at, whatever the flags, the run *)
(* never gets past that line and never reaches dump_to_json.               *)
(***************************************************************************)
C1_DuplicateAlwaysFatal ==
    LET D == Decls
    IN  \A j \in 1..Len(all_lines) :
            SecondOccurrence(D, j) => (idx <= j /\ pc # "done" /\ file_out = <<>>)

(***************************************************************************)
(* C1 (amended): whenever a line that survives the ALT_CO2 filter declares *)
(* its variable at a frequency tag it was already declared at, the run     *)
(* never gets past that line, ends there with the duplicate error if it    *)
(* reaches it, and never reaches dump_to_json nor writes output.           *)
(***************************************************************************)
C1_SurvivingDuplicateFatal ==
    LET D == Decls
    IN  \A j \in 1..Len(all_lines) :
            (SecondOccurrence(D, j) /\ Survives(D, j)) =>
                /\ idx <= j
                /\ pc # "done"
                /\ file_out = <<>>
                /\ (Ended /\ idx = j) =>
                       (pc = "exit" /\ log # <<>> /\ log[Len(log)] = "ERROR: duplicate")

C1_Witness ==
    /\ pc = "exit"
    /\ idx >= 2
    /\ idx <= Len(all_lines)
    /\ SecondOccurrence(Decls, idx)
    /\ Survives(Decls, idx)
    /\ \E key \in DOMAIN diag_table : UserList(diag_table, key) # <<>>

(***************************************************************************)
(* C2: the output is written at most once, only by a run that went through *)
(* every line of an existing input without a malformed line or a surviving *)
(* duplicate and logged no error; a run that ended fatally wrote nothing,  *)
(* whatever it had merged before.                                          *)
(***************************************************************************)
C2_AllOrNothing ==
    /\ Len(file_out) <= 1
    /\ file_out # <<>> =>
          /\ pc = "done"
          /\ ecosys_diagnostics_in = "file"
          /\ idx = Len(all_lines) + 1
          /\ LET D == Decls
             IN  \A j \in 1..Len(all_lines) :
                     D[j].kind # "exit" /\ ~(SecondOccurrence(D, j) /\ Survives(D, j))
    /\ (pc \in {"exit", "raised"} \/ \E i \in 1..Len(log) : log[i] \in ErrorMessages) =>
          file_out = <<>>

C2_Witness ==
    /\ pc = "exit"
    /\ idx = Len(all_lines)
    /\ idx >= 2
    /\ \E key \in DOMAIN diag_table : UserList(diag_table, key) # <<>>
    /\ file_out = <<>>

(***************************************************************************)
(* C3: update with the output-all flag unset and frequency tags of the     *)
(* data model appends the name once per occurrence of a tag f other than   *)
(* "never" to tier f (2D), to f_z (3D, interpolated or both) and to        *)
(* f_native_z (3D, native or both), and changes nothing else.              *)
(***************************************************************************)
C3_UpdatePlacement ==
    (/\ call.op = "update"
     /\ ~call.output_all
     /\ \A i \in 1..Len(call.frequency) : call.frequency[i] \in BaseTiers \cup {NEVER}) =>
        LET n(f) == Cardinality({i \in 1..Len(call.frequency) : call.frequency[i] = f})
            Grown(key, k) ==
                /\ key \in DOMAIN call.before
                /\ diag_table[key] =
                     [call.before[key] EXCEPT
                         !.fields[1].lists[1] = @ \o Repeat(call.varname, k)]
        IN  /\ ~call.raised
            /\ DOMAIN diag_table = DOMAIN call.before
            /\ DOMAIN diag_table \subseteq BaseTiers \cup ZTiers \cup NativeZTiers
            /\ \A f \in BaseTiers :
                 /\ Grown(f, IF call.is2D THEN n(f) ELSE 0)
                 /\ vert_grid \in {"interpolated", "both"} =>
                        Grown(f \o <<"_", "z">>, IF call.is2D THEN 0 ELSE n(f))
                 /\ vert_grid \in {"native", "both"} =>
                        Grown(f \o <<"_", "n", "a", "t", "i", "v", "e", "_", "z">>,
                              IF call.is2D THEN 0 ELSE n(f))

C3_Witness ==
    /\ call.op = "update"
    /\ ~call.output_all
    /\ ~call.is2D
    /\ vert_grid = "both"
    /\ call.frequency = <<NEVER, LOW>>
    /\ UserList(diag_table, LOW \o SUFFIX_Z) # <<>>
    /\ UserList(diag_table, LOW \o SUFFIX_NATIVE_Z) # <<>>
    /\ UserList(diag_table, LOW) = <<>>

(***************************************************************************)
(* C4: update with the output-all flag set appends the name exactly once   *)
(* to medium (2D) or to medium_z and/or medium_native_z (3D, by vertical   *)
(* grid) whatever the frequency list, and changes no other tier.           *)
(***************************************************************************)
C4_OutputAllForcesMedium ==
    (call.op = "update" /\ call.output_all) =>
        LET targets ==
                IF call.is2D THEN {MEDIUM}
                ELSE (IF vert_grid \in {"interpolated", "both"}
                      THEN {MEDIUM \o <<"_", "z">>} ELSE {})
                     \cup (IF vert_grid \in {"native", "both"}
                           THEN {MEDIUM \o <<"_", "n", "a", "t", "i", "v", "e", "_", "z">>}
                           ELSE {})
        IN  /\ ~call.raised
            /\ targets # {}
            /\ targets \subseteq DOMAIN diag_table
            /\ DOMAIN diag_table = DOMAIN call.before
            /\ \A key \in DOMAIN diag_table :
                 diag_table[key] =
                     IF key \in targets
                     THEN [call.before[key] EXCEPT
                              !.fields[1].lists[1] = Append(@, call.varname)]
                     ELSE call.before[key]

C4_Witness ==
    /\ call.op = "update"
    /\ call.output_all
    /\ ~call.is2D
    /\ vert_grid = "both"
    /\ call.frequency = <<LOW, HIGH>>
    /\ UserList(diag_table, MEDIUM \o SUFFIX_Z) = <<call.varname>>
    /\ UserList(diag_table, MEDIUM \o SUFFIX_NATIVE_Z) = <<call.varname>>

(***************************************************************************)
(* C5: dump_to_json writes a document exactly when some tier's variable    *)
(* list is non-empty, its tier keys are exactly the tiers with a non-empty *)
(* list, and with every tier empty it writes nothing and prints a warning, *)
(* never an error.                                                         *)
(***************************************************************************)
C5_DumpOnlyNonEmptyTiers ==
    call.op = "dump" =>
        LET nonempty == {key \in DOMAIN call.before :
                            call.before[key].fields[1].lists[1] # <<>>}
        IN  IF nonempty # {}
            THEN /\ Len(file_out) = call.files + 1
                 /\ DOMAIN file_out[Len(file_out)].Files = nonempty
                 /\ Len(log) = call.logged
            ELSE /\ Len(file_out) = call.files
                 /\ Len(log) = call.logged + 1
                 /\ log[Len(log)] = "WARNING: no JSON file written"
                 /\ log[Len(log)] \notin ErrorMessages

C5_Witness ==
    /\ call.op = "dump"
    /\ Len(file_out) = call.files + 1
    /\ DOMAIN file_out[Len(file_out)].Files # {}
    /\ DOMAIN file_out[Len(file_out)].Files # DOMAIN diag_table

(***************************************************************************)
(* C6: in the document a run writes, a tier carries the transport list     *)
(* [volcello, vmo, vhGM, vhml, umo, uhGM, uhml] as one extra list after    *)
(* the user list exactly when its module is "ocean_model" and its name     *)
(* ends in "_z", which are the *_native_z tiers; the 2D tiers (module      *)
(* "ocean_model") and the *_z tiers (module "ocean_model_z") carry the     *)
(* user list alone.                                                        *)
(***************************************************************************)
C6_TransportNames ==
    << <<"v", "o", "l", "c", "e", "l", "l", "o">>, <<"v", "m", "o">>,
       <<"v", "h", "G", "M">>, <<"v", "h", "m", "l">>, <<"u", "m", "o">>,
       <<"u", "h", "G", "M">>, <<"u", "h", "m", "l">> >>

C6_TransportsOnNativeZOnly ==
    \A n \in 1..Len(file_out) :
        \A key \in DOMAIN file_out[n].Files :
            LET field == file_out[n].Files[key].fields[1]
                nativeZ == field.module = "ocean_model"
                           /\ Len(key) >= 2
                           /\ SubSeq(key, Len(key) - 1, Len(key)) = <<"_", "z">>
            IN  /\ key \in BaseTiers \cup ZTiers \cup NativeZTiers
                /\ nativeZ <=> key \in NativeZTiers
                /\ key \in BaseTiers => field.module = "ocean_model"
                /\ key \in ZTiers => field.module = "ocean_model_z"
                /\ field.lists[1] = UserList(diag_table, key)
                /\ field.lists[1] # <<>>
                /\ IF nativeZ
                   THEN field.lists = <<field.lists[1], C6_TransportNames>>
                   ELSE field.lists = <<field.lists[1]>>

C6_Witness ==
    /\ pc = "done"
    /\ file_out # <<>>
    /\ vert_grid = "both"
    /\ {LOW, LOW \o SUFFIX_Z, LOW \o SUFFIX_NATIVE_Z} \subseteq DOMAIN file_out[1].Files

(***************************************************************************)
(* C7: _parse_line returns the null triple when the text before the first  *)
(* '#' is blank; else it exits fatally, after an error message, unless     *)
(* that text holds exactly one ':' and every comma-separated entry after   *)
(* it holds exactly one '_'; else it returns the stripped name and, in     *)
(* entry order, the text before and after the '_' of each stripped entry,  *)
(* e.g. ("FOO", [low, high], [mean, inst]) for "FOO : low_mean, high_inst".*)
(***************************************************************************)
C7_ParseLineReference ==
    parsed.kind # "pending" =>
        LET body == Trim(BeforeComment(line_in))
            rest == Segment(body, ":", 2)
            n == Count(rest, ",") + 1
            entry(k) == Trim(Segment(rest, ",", k))
            shaped == /\ Count(body, ":") = 1
                      /\ \A k \in 1..n : Count(entry(k), "_") = 1
        IN  /\ IF body = <<>>
               THEN parsed.kind = "none" /\ parsed.log = <<>>
               ELSE IF ~shaped
               THEN /\ parsed.kind = "exit"
                    /\ Len(parsed.log) = 1
                    /\ parsed.log[1] \in ErrorMessages
               ELSE /\ parsed.kind = "ok"
                    /\ parsed.log = <<>>
                    /\ parsed.varname = Trim(Segment(body, ":", 1))
                    /\ Len(parsed.freq) = n
                    /\ Len(parsed.op) = n
                    /\ \A k \in 1..n :
                         /\ parsed.freq[k] = Segment(entry(k), "_", 1)
                         /\ parsed.op[k] = Segment(entry(k), "_", 2)
            /\ parsed.kind # "ok" =>
                   (parsed.varname = <<>> /\ parsed.freq = <<>> /\ parsed.op = <<>>)
            /\ line_in = FOO \o <<" ", ":", " ">> \o LOW \o <<"_">> \o MEAN
                         \o <<",", " ">> \o HIGH \o <<"_">> \o INST =>
                   /\ parsed.kind = "ok"
                   /\ parsed.varname = FOO
                   /\ parsed.freq = <<LOW, HIGH>>
                   /\ parsed.op = <<MEAN, INST>>

C7_Witness ==
    /\ parsed.kind = "ok"
    /\ parsed.varname # <<>>
    /\ Len(parsed.freq) = 2
    /\ parsed.freq[1] # parsed.freq[2]
    /\ Count(line_in, " ") > 0

(***************************************************************************)
(* C8: under any sequence of update and dump_to_json calls every template  *)
(* of the registry stays as the constructor made it except for its user    *)
(* variable list, which only grows at its end: the tiers, every field and  *)
(* the single list under "fields"/"lists" are unchanged, and dump_to_json  *)
(* leaves the registry as it was.                                          *)
(***************************************************************************)
C8_TemplatesFrozen ==
    pc = "object" =>
        /\ DOMAIN diag_table = TierNames(vert_grid)
        /\ \A key \in DOMAIN diag_table :
             [diag_table[key] EXCEPT !.fields[1].lists = << <<>> >>] = TemplateFor(key)
        /\ call.op = "dump" => diag_table = call.before
        /\ call.op = "update" =>
             \A key \in DOMAIN diag_table :
                 LET old == UserList(call.before, key)
                     new == UserList(diag_table, key)
                 IN  Len(old) <= Len(new) /\ SubSeq(new, 1, Len(old)) = old

(***************************************************************************)
(* C9: in every run that reaches dump_to_json, whatever the flags and the  *)
(* vertical grid, no tier's user variable list holds a name twice.         *)
(***************************************************************************)
C9_NoNameTwiceInTier ==
    pc = "done" =>
        \A key \in DOMAIN diag_table :
            \A a, b \in 1..Len(UserList(diag_table, key)) :
                a # b => UserList(diag_table, key)[a] # UserList(diag_table, key)[b]

(***************************************************************************)
(* C10: a run ends before dump_to_json only by one of the fatal conditions *)
(* of the taxonomy, after an error message; a run over an existing file    *)
(* whose non-blank lines are all well shaped and repeat no variable at a   *)
(* frequency tag appends only to tiers of the registry and reaches         *)
(* dump_to_json, whatever the frequency tags are.                          *)
(***************************************************************************)
C10_OnlyTaxonomyEndings ==
    /\ (Ended /\ pc # "done") =>
          (pc = "exit" /\ log # <<>> /\ log[Len(log)] \in ErrorMessages)
    /\ (/\ Ended
        /\ ecosys_diagnostics_in = "file"
        /\ LET D == Decls
           IN  \A j \in 1..Len(all_lines) :
                   D[j].kind # "exit" /\ ~SecondOccurrence(D, j)) => pc = "done"

=============================================================================
